---- MODULE Spec2Model ----
(***************************************************************************)
(* Model of the IB API sync scripts:                                       *)
(*   .github/scripts/check_version.py  (the checker, "check")              *)
(*   setup_ibapi.py                    (the installer script, "setup")     *)
(* Strings that the code parses (version strings) are sequences of         *)
(* one-character strings, so that split('.') and int() are modelled by     *)
(* what they do.                                                           *)
(***************************************************************************)
EXTENDS Integers, Sequences, FiniteSets, TLC

VARIABLES
    pc,                \* position of the current run in main()
    entry,             \* "check" | "setup": which script is running
    chan,              \* args.version_type / args.version
    update,            \* args.update (check only)
    runs,              \* number of runs started so far
    failures,          \* recoverable failures (copy, record write) injected so far
    dest,              \* project_root: entry name -> entry
    chanFile,          \* .ibapi_<channel>_version, per channel
    sharedFile,        \* .ibapi_version
    temp,              \* the TemporaryDirectory of the run exists
    current_version,   \* check: current_version
    available_version, \* available_version / page_version
    download_url,      \* the download URL page resolution returns
    page_version,      \* the version read from the page (perform_update's page_version)
    has_update,        \* check: has_update
    installed_version, \* result of copy_files
    new_version,       \* the version the run reports (new_version / "Installed version")
    archive,           \* the archive that was downloaded (its name)
    ibjts_dir,         \* the payload located in the extracted tree (its name)
    exitCode,          \* process exit status, -1 while running
    fetched,           \* history: the archive download was started in this run
    installing,        \* history: copy_files was entered in this run
    written,           \* history: a version record was written in this run
    warnings,          \* history: the items copy_files could not copy in this run
    recordFailed,      \* history: writing the version record raised in this run
    synced,            \* history: the run before this one was a checker run with
                       \* --update for the same channel that installed (the copy
                       \* of the package did not raise) and wrote the record
    upstreamPages,     \* the pages the server may answer a request with
    upstreamArchives,  \* the archives the server may answer a download with
    dest0,             \* history: dest at the start of the run
    chanFile0,         \* history: chanFile at the start of the run
    sharedFile0,       \* history: sharedFile at the start of the run
    cmpPc,             \* comparison harness: position
    cmpR,              \* comparison harness: remote version as integers
    cmpL,              \* comparison harness: local version as integers
    cmpOut             \* comparison harness: has_update computed by the code

runVars == <<pc, entry, chan, update, runs, failures, dest, chanFile, sharedFile,
             temp, current_version, available_version, download_url, page_version,
             has_update, installed_version, new_version, archive, ibjts_dir,
             exitCode, fetched, installing, written, warnings, recordFailed,
             synced, upstreamPages, upstreamArchives, dest0, chanFile0, sharedFile0>>
cmpVars == <<cmpPc, cmpR, cmpL, cmpOut>>
vars == <<runVars, cmpVars>>

(***************************************************************************)
(* Bounds                                                                  *)
(***************************************************************************)
MaxRuns == 2
MaxFailures == 1
\* the runs followed to their end under fairness
MaxFairRuns == 1

(***************************************************************************)
(* Strings                                                                 *)
(***************************************************************************)
\* Python None. Every test the code makes on a version is a truthiness test
\* ("if not version", "a or b"), under which None and "" coincide.
None == <<>>

Digits == <<"0", "1", "2", "3", "4", "5", "6", "7", "8", "9">>

DigitVal(c) == (CHOOSE d \in 1..10 : Digits[d] = c) - 1

\* int(x) for a string of decimal digits
RECURSIVE ParseInt(_)
ParseInt(s) ==
    IF Len(s) = 0 THEN 0
    ELSE ParseInt(SubSeq(s, 1, Len(s) - 1)) * 10 + DigitVal(s[Len(s)])

\* str(n) / the f-string rendering of a non-negative integer
RECURSIVE IntToStr(_)
IntToStr(n) ==
    IF n < 10 THEN <<Digits[n + 1]>>
    ELSE IntToStr(n \div 10) \o <<Digits[(n % 10) + 1]>>

\* version.split('.')
RECURSIVE SplitDot(_)
SplitDot(s) ==
    IF \E i \in 1..Len(s) : s[i] = "."
    THEN LET i == CHOOSE k \in 1..Len(s) :
                     s[k] = "." /\ \A j \in 1..(k - 1) : s[j] # "."
         IN  <<SubSeq(s, 1, i - 1)>> \o SplitDot(SubSeq(s, i + 1, Len(s)))
    ELSE <<s>>

\* f"{a}.{b}" and f"{a}.{b}.{c}" over the regex groups (digit strings)
RECURSIVE JoinDot(_)
JoinDot(groups) ==
    IF Len(groups) = 0 THEN <<>>
    ELSE IF Len(groups) = 1 THEN groups[1]
    ELSE groups[1] \o <<".">> \o JoinDot(Tail(groups))

(***************************************************************************)
(* Version comparison (check_version.py)                                   *)
(***************************************************************************)
normalize_version(version) ==
    IF version = None THEN None
    ELSE IF Len(SplitDot(version)) = 2 THEN version \o <<".", "0">>
    ELSE version

VersionPartsNoMicro(v) == [i \in 1..2 |-> ParseInt(SplitDot(v)[i])]

\* [int(x) for x in v.split('.')]
VersionParts(v) == [i \in 1..Len(SplitDot(v)) |-> ParseInt(SplitDot(v)[i])]

Max(a, b) == IF a > b THEN a ELSE b

RECURSIVE ComparePartsOrEqual(_, _, _)
ComparePartsOrEqual(current_parts, available_parts, i) ==
    IF i > Max(Len(current_parts), Len(available_parts)) THEN TRUE
    ELSE LET current_part == IF i <= Len(current_parts) THEN current_parts[i] ELSE 0
             available_part == IF i <= Len(available_parts) THEN available_parts[i] ELSE 0
         IN  IF available_part > current_part THEN TRUE
             ELSE IF available_part < current_part THEN FALSE
             ELSE ComparePartsOrEqual(current_parts, available_parts, i + 1)

\* the loop of lines 457-465, from index i on
RECURSIVE CompareParts(_, _, _)
CompareParts(current_parts, available_parts, i) ==
    IF i > Max(Len(current_parts), Len(available_parts)) THEN FALSE
    ELSE LET current_part == IF i <= Len(current_parts) THEN current_parts[i] ELSE 0
             available_part == IF i <= Len(available_parts) THEN available_parts[i] ELSE 0
         IN  IF available_part > current_part THEN TRUE
             ELSE IF available_part < current_part THEN FALSE
             ELSE CompareParts(current_parts, available_parts, i + 1)

ComputeHasUpdateNoBaseline(available_version_normalized, current_version_normalized) ==
    IF available_version_normalized # None /\ current_version_normalized # None
    THEN CompareParts(VersionParts(current_version_normalized),
                      VersionParts(available_version_normalized), 1)
    ELSE FALSE

\* has_update as main() computes it from the two normalized versions
ComputeHasUpdate(available_version_normalized, current_version_normalized) ==
    IF available_version_normalized # None /\ current_version_normalized # None
    THEN CompareParts(VersionParts(current_version_normalized),
                      VersionParts(available_version_normalized), 1)
    ELSE IF available_version_normalized # None /\ current_version_normalized = None
    THEN TRUE
    ELSE FALSE

\* lines 443, 447 and 449-468 together: the comparison of two raw versions
is_newer(available, current) ==
    ComputeHasUpdate(IF available # None THEN normalize_version(available) ELSE None,
                     IF current # None THEN normalize_version(current) ELSE None)

(***************************************************************************)
(* Destination tree, payloads and version records                          *)
(***************************************************************************)
Channels == {"stable", "latest"}

\* items_to_copy, in the order of the loop
InstallSet == <<"ibapi", "setup.py", "MANIFEST.in", "pylintrc", "README.md", "tests", "tox.ini">>

InstallNames == {InstallSet[i] : i \in 1..Len(InstallSet)}

\* a destination entry that no script names
OutsideNames == {"LICENSE"}

DestNames == InstallNames \cup OutsideNames

\* An entry of a directory: kind is "absent", "file" or "dir"; data names
\* the content; meta holds the three groups of the VERSION pattern found in
\* <entry>/__init__.py, or <<>> when that file is missing or does not match.
Absent == [kind |-> "absent", data |-> "none", meta |-> <<>>]

File(d) == [kind |-> "file", data |-> d, meta |-> <<>>]

Dir(d, m) == [kind |-> "dir", data |-> d, meta |-> m]

Meta(major, minor, micro) == <<IntToStr(major), IntToStr(minor), IntToStr(micro)>>

\* a version string built from integers, as the test data is written
Ver2(major, minor) == JoinDot(<<IntToStr(major), IntToStr(minor)>>)

Ver3(major, minor, micro) == JoinDot(Meta(major, minor, micro))

\* lines 157-184: the version in <ibapi_dir>/__init__.py
get_version_from_ibapi(ibapi_dir) ==
    IF ibapi_dir.kind = "dir" /\ ibapi_dir.meta # <<>>
    THEN JoinDot(ibapi_dir.meta)
    ELSE None

\* A version record file: state is "absent", "malformed" (not JSON, or not a
\* JSON object) or "ok"; a missing key reads as None.
NoFile == [state |-> "absent", type |-> "none", version |-> None]

BadFile == [state |-> "malformed", type |-> "none", version |-> None]

RecordFile(t, v) == [state |-> "ok", type |-> t, version |-> v]

\* check_version.py get_current_version
get_current_version(project_root, cf, sf, version_type) ==
    IF cf[version_type].state = "ok"
    THEN cf[version_type].version
    ELSE IF sf.state = "ok" /\ sf.type = version_type
    THEN sf.version
    ELSE get_version_from_ibapi(project_root["ibapi"])

\* Outcomes of one copy: "ok", or the exception is raised before anything
\* was removed ("failBefore"), after the old entry was removed and nothing
\* was written ("failRemoved"), or after part of the new entry was written
\* ("failPartial").
FailKinds == {"failBefore", "failRemoved", "failPartial"}

Partial(source_item) ==
    [kind |-> source_item.kind, data |-> "partial", meta |-> source_item.meta]

\* a copy that mirrors the payload: an item absent from it is removed
CopyItemPrune(source_item, dest_item, outcome) ==
    IF source_item.kind = "absent" THEN Absent
    ELSE IF source_item.kind = "dir"
    THEN IF dest_item.kind = "file" THEN dest_item
         ELSE IF outcome = "failBefore" THEN dest_item
         ELSE IF outcome = "failRemoved" THEN Absent
         ELSE IF outcome = "failPartial" THEN Partial(source_item)
         ELSE source_item
    ELSE IF dest_item.kind = "dir" THEN dest_item
         ELSE IF outcome = "failBefore" THEN dest_item
         ELSE IF outcome = "failRemoved" THEN Absent
         ELSE IF outcome = "failPartial" THEN Partial(source_item)
         ELSE source_item

\* the body of the loop of copy_files for one item: the new destination entry
CopyItem(source_item, dest_item, outcome) ==
    IF source_item.kind = "absent" THEN dest_item
    ELSE IF source_item.kind = "dir"
    THEN \* rmtree of a plain file raises before anything is removed
         IF dest_item.kind = "file" THEN dest_item
         ELSE IF outcome = "failBefore" THEN dest_item
         ELSE IF outcome = "failRemoved" THEN Absent
         ELSE IF outcome = "failPartial" THEN Partial(source_item)
         ELSE source_item
    ELSE \* unlink of a directory raises before anything is removed
         IF dest_item.kind = "dir" THEN dest_item
         ELSE IF outcome = "failBefore" THEN dest_item
         ELSE IF outcome = "failRemoved" THEN Absent
         ELSE IF outcome = "failPartial" THEN Partial(source_item)
         ELSE source_item

\* the copy of one item raises, and the except branch of line 243 reports it
Raises(source_item, dest_item, outcome) ==
    /\ source_item.kind # "absent"
    /\ \/ outcome # "ok"
       \/ source_item.kind = "dir" /\ dest_item.kind = "file"
       \/ source_item.kind = "file" /\ dest_item.kind = "dir"

\* a loop that gives up at the first item whose copy raises
RECURSIVE CopyLoopAbort(_, _, _, _)
CopyLoopAbort(source_path, dest_path, outcomes, i) ==
    IF i > Len(InstallSet) THEN dest_path
    ELSE LET item == InstallSet[i]
             outcome == IF item \in DOMAIN outcomes THEN outcomes[item] ELSE "ok"
             copied == [dest_path EXCEPT ![item] =
                          CopyItem(source_path[item], dest_path[item], outcome)]
         IN  IF Raises(source_path[item], dest_path[item], outcome) THEN copied
             ELSE CopyLoopAbort(source_path, copied, outcomes, i + 1)

\* the loop of copy_files from item i on; outcomes maps the items whose copy
\* raises to the way it fails
RECURSIVE CopyLoop(_, _, _, _)
CopyLoop(source_path, dest_path, outcomes, i) ==
    IF i > Len(InstallSet) THEN dest_path
    ELSE LET item == InstallSet[i]
             outcome == IF item \in DOMAIN outcomes THEN outcomes[item] ELSE "ok"
         IN  CopyLoop(source_path,
                      [dest_path EXCEPT ![item] =
                          CopyItem(source_path[item], dest_path[item], outcome)],
                      outcomes, i + 1)

\* line 250: final_version or source_version
FinalVersion(source_version, final_version) ==
    IF final_version # None THEN final_version ELSE source_version

\* the items for which copy_files prints "Warning: Could not copy"
Warned(source_path, dest_path, outcomes) ==
    {item \in InstallNames :
        Raises(source_path[item], dest_path[item],
               IF item \in DOMAIN outcomes THEN outcomes[item] ELSE "ok")}

\* copy_files: the destination after the loop and the version it returns
copy_files(source_path, dest_path, outcomes) ==
    LET source_version == get_version_from_ibapi(source_path["ibapi"])
        copied == CopyLoop(source_path, dest_path, outcomes, 1)
        final_version == get_version_from_ibapi(copied["ibapi"])
    IN  [dest |-> copied, version |-> FinalVersion(source_version, final_version)]

RecordedVersionPageFirst(installed, page) ==
    IF page # None THEN page ELSE installed

\* lines 409-419 (check) and 396-402 (setup): the version that is recorded
RecordedVersion(installed, page) ==
    IF installed # None THEN installed
    ELSE IF page # None THEN page
    ELSE None

WriteChannelFileAll(cf, version_type, version_number) ==
    [c \in Channels |-> RecordFile(c, version_number)]

\* check_version.py write_version_file: the channel files after the write
WriteChannelFile(cf, version_type, version_number) ==
    [cf EXCEPT ![version_type] = RecordFile(version_type, version_number)]

\* setup_ibapi.py write_version_file: the shared file after the write
WriteSharedFile(version_type, version_number) ==
    RecordFile(version_type, version_number)

(***************************************************************************)
(* The landing page                                                        *)
(***************************************************************************)
\* A URL or href is a sequence of pieces: every '/' is a piece of its own and
\* the text between two of them (a scheme with its colon, a host, a name) is
\* one piece, so that startswith('//') and startswith('/') look at the first
\* pieces.
StartsWith(url, prefix) ==
    /\ Len(url) >= Len(prefix)
    /\ SubSeq(url, 1, Len(prefix)) = prefix

PageOrigin == <<"https:", "/", "/", "interactivebrokers.github.io">>

\* urljoin(base, url) for a base without a path and a url that begins with
\* a single '/'
urljoin(base, url) == base \o url

\* lines 87-91: the href after the handling of protocol-relative URLs
NormalizeUrl(url) ==
    IF StartsWith(url, <<"/", "/">>) THEN <<"https:">> \o url
    ELSE IF StartsWith(url, <<"/">>) THEN urljoin(PageOrigin, url)
    ELSE url

\* the five forms an href takes, for one host, directory and file name
HrefProtocolRelative(name) == <<"/", "/", "host.example", "/", name>>

HrefRootRelative(name) == <<"/", "DownloadsMac", "/", name>>

HrefHttps(name) == <<"https:", "/", "/", "host.example", "/", name>>

HrefHttp(name) == <<"http:", "/", "/", "host.example", "/", name>>

HrefPathRelative(name) == <<"DownloadsMac", "/", name>>

\* An anchor of the page: marker = the href contains 'twsapi_macunix' and
\* '.zip'; row = the anchor has an enclosing <tr>; stable / latest = the row
\* text contains 'TWS API Stable' / 'TWS API Latest'; rowVer = group 1 of
\* API\s+(\d+\.\d+) in the row text, or None; fileVer = the two groups of
\* twsapi_macunix\.(\d+)\.(\d+) in the href, or <<>>.
Anchor(h, m, r, st, la, rv, fv) ==
    [href |-> h, marker |-> m, row |-> r, stable |-> st, latest |-> la,
     rowVer |-> rv, fileVer |-> fv]

AnchorWindows == Anchor(HrefHttps("twsapi.msi"), FALSE, TRUE, TRUE, FALSE, Ver2(10, 37), <<>>)

AnchorNoRow == Anchor(HrefPathRelative("twsapi_macunix.zip"), TRUE, FALSE, FALSE, FALSE, None, <<>>)

AnchorStable ==
    Anchor(HrefProtocolRelative("twsapi_macunix.1037.02.zip"), TRUE, TRUE, TRUE, FALSE, Ver2(10, 37),
           <<IntToStr(1037), <<"0", "2">>>>)

AnchorLatest ==
    Anchor(HrefRootRelative("twsapi_macunix.1038.01.zip"), TRUE, TRUE, FALSE, TRUE, Ver2(10, 38),
           <<IntToStr(1038), <<"0", "1">>>>)

AnchorStableFileVer ==
    Anchor(HrefPathRelative("twsapi_macunix.1037.02.zip"), TRUE, TRUE, TRUE, FALSE, None,
           <<IntToStr(1037), <<"0", "2">>>>)

AnchorLatestNoVer == Anchor(HrefHttp("twsapi_macunix.zip"), TRUE, TRUE, FALSE, TRUE, None, <<>>)

Pages ==
    { [ok |-> FALSE, links |-> <<>>],
      [ok |-> TRUE, links |-> <<AnchorWindows, AnchorNoRow>>],
      [ok |-> TRUE, links |-> <<AnchorWindows, AnchorStable, AnchorLatest>>],
      [ok |-> TRUE, links |-> <<AnchorStableFileVer, AnchorLatestNoVer>>] }

\* the test of lines 57-75 on one anchor
Matches(link, version_type) ==
    /\ link.marker
    /\ link.row
    /\ \/ version_type = "stable" /\ link.stable
       \/ version_type = "latest" /\ link.latest

\* find_download_url_and_version: ok = FALSE stands for sys.exit(1)
find_download_url_and_version(page, version_type) ==
    IF ~page.ok THEN [ok |-> FALSE, url |-> None, version |-> None]
    ELSE IF ~\E i \in 1..Len(page.links) : Matches(page.links[i], version_type)
    THEN [ok |-> FALSE, url |-> None, version |-> None]
    ELSE LET i == CHOOSE k \in 1..Len(page.links) :
                     /\ Matches(page.links[k], version_type)
                     /\ \A j \in 1..(k - 1) : ~Matches(page.links[j], version_type)
             link == page.links[i]
         IN  [ok |-> TRUE,
              url |-> NormalizeUrl(link.href),
              version |-> IF link.rowVer # None THEN link.rowVer
                          ELSE JoinDot(link.fileVer)]

(***************************************************************************)
(* Archives                                                                *)
(***************************************************************************)
PayloadFull ==
    [n \in InstallNames |->
        IF n = "ibapi" THEN Dir("full", Meta(10, 37, 1))
        ELSE IF n = "tests" THEN Dir("full", <<>>)
        ELSE File("full")]

\* ibapi/__init__.py carries no VERSION line
PayloadNoMeta ==
    [n \in InstallNames |->
        IF n = "ibapi" THEN Dir("nometa", <<>>)
        ELSE IF n \in {"setup.py", "README.md"} THEN File("nometa")
        ELSE Absent]

\* ibapi/, tests/ and tox.ini are not shipped; README.md is a directory
PayloadNoTests ==
    [n \in InstallNames |->
        IF n \in {"ibapi", "tests", "tox.ini"} THEN Absent
        ELSE IF n = "README.md" THEN Dir("notests", <<>>)
        ELSE File("notests")]

NoPayload == [n \in InstallNames |-> Absent]

\* payloads are held by name
PayloadOf(id) ==
    CASE id = "full" -> PayloadFull
      [] id = "nometa" -> PayloadNoMeta
      [] id = "notests" -> PayloadNoTests
      [] OTHER -> NoPayload

\* A top-level item of the extracted tree: has = <item>/IBJts/source/pythonclient
\* exists, and payload names what it holds.
Item(d, h, p) == [isDir |-> d, has |-> h, payload |-> p]

\* An archive: valid = it is a ZIP file that extracts; direct = the path
\* IBJts/source/pythonclient exists under the extraction root, holding
\* directPayload; top = the top-level items of the extracted tree, in the
\* order iterdir() lists them.
Archive(v, d, dp, t) == [valid |-> v, direct |-> d, directPayload |-> dp, top |-> t]

NoArchive == Archive(FALSE, FALSE, "none", <<>>)

ArchiveBad == Archive(FALSE, FALSE, "none", <<Item(FALSE, FALSE, "none")>>)

ArchiveEmpty == Archive(TRUE, FALSE, "none", <<>>)

\* the payload lies two levels below the extraction root
ArchiveDeep == Archive(TRUE, FALSE, "none", <<Item(TRUE, FALSE, "none")>>)

ArchiveRoot(p) == Archive(TRUE, TRUE, p, <<Item(TRUE, FALSE, "none")>>)

ArchiveNested(p, q) ==
    Archive(TRUE, FALSE, "none",
            <<Item(FALSE, FALSE, "none"), Item(TRUE, FALSE, "none"),
              Item(TRUE, TRUE, p), Item(TRUE, TRUE, q)>>)

\* archives are held by name
ArchiveIds == {"bad", "empty", "deep", "root-full", "nested-notests", "root-nometa"}

ArchiveOf(id) ==
    CASE id = "bad" -> ArchiveBad
      [] id = "empty" -> ArchiveEmpty
      [] id = "deep" -> ArchiveDeep
      [] id = "root-full" -> ArchiveRoot("full")
      [] id = "nested-notests" -> ArchiveNested("notests", "full")
      [] id = "root-nometa" -> ArchiveRoot("nometa")
      [] OTHER -> NoArchive

\* a search that keeps the last matching directory instead of stopping at
\* the first
LocatePayloadLast(a) ==
    IF Len(a.top) = 0 THEN [found |-> FALSE, payload |-> "none"]
    ELSE IF a.direct THEN [found |-> TRUE, payload |-> a.directPayload]
    ELSE IF \E i \in 1..Len(a.top) : a.top[i].isDir /\ a.top[i].has
    THEN LET i == CHOOSE k \in 1..Len(a.top) :
                     /\ a.top[k].isDir /\ a.top[k].has
                     /\ \A j \in (k + 1)..Len(a.top) : ~(a.top[j].isDir /\ a.top[j].has)
         IN  [found |-> TRUE, payload |-> a.top[i].payload]
    ELSE [found |-> FALSE, payload |-> "none"]

\* lines 381-404: found = FALSE stands for sys.exit(1)
LocatePayload(a) ==
    IF Len(a.top) = 0 THEN [found |-> FALSE, payload |-> "none"]
    ELSE IF a.direct THEN [found |-> TRUE, payload |-> a.directPayload]
    ELSE IF \E i \in 1..Len(a.top) : a.top[i].isDir /\ a.top[i].has
    THEN LET i == CHOOSE k \in 1..Len(a.top) :
                     /\ a.top[k].isDir /\ a.top[k].has
                     /\ \A j \in 1..(k - 1) : ~(a.top[j].isDir /\ a.top[j].has)
         IN  [found |-> TRUE, payload |-> a.top[i].payload]
    ELSE [found |-> FALSE, payload |-> "none"]

(***************************************************************************)
(* Initial states                                                          *)
(***************************************************************************)
\* a vendored copy of 10.30.0, in which pylintrc is a directory
DestOld ==
    [n \in DestNames |->
        IF n = "ibapi" THEN Dir("orig", Meta(10, 30, 0))
        ELSE IF n \in {"tests", "pylintrc"} THEN Dir("orig", <<>>)
        ELSE File("orig")]

InitDests == {DestOld}

NoChannelFiles == [c \in Channels |-> NoFile]

\* the version records found at the start: [cf |-> channel files, sf |-> shared file]
InitRecords ==
    { [cf |-> NoChannelFiles, sf |-> NoFile],
      [cf |-> [stable |-> RecordFile("stable", Ver3(10, 30, 0)),
               latest |-> RecordFile("latest", Ver3(10, 38, 0))],
       sf |-> RecordFile("stable", Ver2(10, 37))],
      [cf |-> [stable |-> BadFile, latest |-> RecordFile("latest", None)],
       sf |-> RecordFile("latest", Ver3(10, 30, 0))] }

RunInit ==
    /\ pc = "idle"
    /\ entry = "none"
    /\ chan = "none"
    /\ update = FALSE
    /\ runs = 0
    /\ failures = 0
    /\ temp = FALSE
    /\ current_version = None
    /\ available_version = None
    /\ download_url = None
    /\ page_version = None
    /\ has_update = FALSE
    /\ installed_version = None
    /\ new_version = None
    /\ archive = "none"
    /\ ibjts_dir = "none"
    /\ exitCode = -1
    /\ fetched = FALSE
    /\ installing = FALSE
    /\ written = FALSE
    /\ warnings = {}
    /\ recordFailed = FALSE
    /\ synced = FALSE

CmpIdle ==
    /\ cmpPc = "off"
    /\ cmpR = <<>>
    /\ cmpL = <<>>
    /\ cmpOut = FALSE

Init ==
    /\ RunInit
    /\ dest \in InitDests
    /\ \E r \in InitRecords : chanFile = r.cf /\ sharedFile = r.sf
    /\ dest0 = dest
    /\ chanFile0 = chanFile
    /\ sharedFile0 = sharedFile
    /\ upstreamPages = Pages
    /\ upstreamArchives = ArchiveIds
    /\ CmpIdle

(***************************************************************************)
(* The runs                                                                *)
(***************************************************************************)
\* what a run leaves alone unless it says otherwise
Persistent == <<dest, chanFile, sharedFile>>

History == <<dest0, chanFile0, sharedFile0>>

Locals == <<current_version, download_url, page_version, installed_version, archive, ibjts_dir>>

Args == <<entry, chan, update, runs>>

Upstream == <<upstreamPages, upstreamArchives>>

TempDirExitLeak(t) == t

\* leaving the with-block of tempfile.TemporaryDirectory(), normally or by
\* an exception (SystemExit included): the directory is removed
TempDirExit(t) == FALSE

\* sys.exit(1) on a fatal error
Fatal ==
    /\ pc' = "failed"
    /\ exitCode' = 1
    /\ temp' = TempDirExit(temp)

\* check_version.py main, lines 437-443
StartCheck(c, u) ==
    /\ pc \in {"idle", "done", "failed"}
    /\ runs < MaxRuns
    /\ runs' = runs + 1
    /\ entry' = "check"
    /\ chan' = c
    /\ update' = u
    /\ synced' = (entry = "check" /\ pc = "done" /\ update /\ chan = c
                      /\ installing /\ "ibapi" \notin warnings /\ written)
    /\ current_version' = get_current_version(dest, chanFile, sharedFile, c)
    /\ temp' = FALSE
    /\ pc' = "resolve"
    /\ available_version' = None
    /\ download_url' = None
    /\ page_version' = None
    /\ has_update' = FALSE
    /\ installed_version' = None
    /\ new_version' = None
    /\ archive' = "none"
    /\ ibjts_dir' = "none"
    /\ exitCode' = -1
    /\ fetched' = FALSE
    /\ installing' = FALSE
    /\ written' = FALSE
    /\ warnings' = {}
    /\ recordFailed' = FALSE
    /\ dest0' = dest
    /\ chanFile0' = chanFile
    /\ sharedFile0' = sharedFile
    /\ UNCHANGED <<Persistent, failures, Upstream, cmpVars>>

\* setup_ibapi.py main, lines 314-331: the temporary directory is created
\* before the page is fetched
StartSetup(c) ==
    /\ pc \in {"idle", "done", "failed"}
    /\ runs < MaxRuns
    /\ runs' = runs + 1
    /\ entry' = "setup"
    /\ chan' = c
    /\ update' = FALSE
    /\ synced' = FALSE
    /\ current_version' = None
    /\ temp' = TRUE
    /\ pc' = "resolve"
    /\ available_version' = None
    /\ download_url' = None
    /\ page_version' = None
    /\ has_update' = FALSE
    /\ installed_version' = None
    /\ new_version' = None
    /\ archive' = "none"
    /\ ibjts_dir' = "none"
    /\ exitCode' = -1
    /\ fetched' = FALSE
    /\ installing' = FALSE
    /\ written' = FALSE
    /\ warnings' = {}
    /\ recordFailed' = FALSE
    /\ dest0' = dest
    /\ chanFile0' = chanFile
    /\ sharedFile0' = sharedFile
    /\ UNCHANGED <<Persistent, failures, Upstream, cmpVars>>

\* a resolution that goes on to the download without the comparison
ResolveThenDownload ==
    /\ pc = "resolve"
    /\ \E page \in upstreamPages :
          LET r == find_download_url_and_version(page, chan)
          IN  IF r.ok
              THEN /\ download_url' = r.url
                   /\ available_version' = r.version
                   /\ page_version' = r.version
                   /\ pc' = "download"
                   /\ UNCHANGED <<exitCode, temp>>
              ELSE /\ Fatal
                   /\ UNCHANGED <<download_url, available_version, page_version>>
    /\ UNCHANGED <<Args, failures, Persistent, History, current_version, has_update,
                   installed_version, new_version, archive, ibjts_dir, fetched,
                   installing, written, warnings, recordFailed, synced, Upstream, cmpVars>>

\* find_download_url_and_version against the page the server returns
Resolve ==
    /\ pc = "resolve"
    /\ \E page \in upstreamPages :
          LET r == find_download_url_and_version(page, chan)
          IN  IF r.ok
              THEN /\ download_url' = r.url
                   /\ available_version' = r.version
                   /\ page_version' = r.version
                   /\ pc' = IF entry = "check" THEN "compare" ELSE "download"
                   /\ UNCHANGED <<exitCode, temp>>
              ELSE /\ Fatal
                   /\ UNCHANGED <<download_url, available_version, page_version>>
    /\ UNCHANGED <<Args, failures, Persistent, History, current_version, has_update,
                   installed_version, new_version, archive, ibjts_dir, fetched,
                   installing, written, warnings,
                   recordFailed, synced, Upstream, cmpVars>>

EntersUpdateAlways(u, h) == TRUE

\* the guard of line 471
EntersUpdate(u, h) == u /\ h

\* check_version.py main, lines 447-471, up to the entry of perform_update
Compare ==
    /\ pc = "compare"
    /\ LET newer == is_newer(available_version, current_version)
       IN  /\ has_update' = newer
           /\ IF EntersUpdate(update, newer)
              THEN pc' = "download" /\ temp' = TRUE
              ELSE pc' = "output" /\ temp' = temp
    /\ UNCHANGED <<Args, failures, Persistent, History, Locals, available_version,
                   new_version, exitCode, fetched, installing, written, warnings,
                   recordFailed, synced, Upstream, cmpVars>>

\* requests.get(url): a URL without a scheme raises MissingSchema, which is
\* a RequestException, before anything is sent
HasScheme(url) ==
    StartsWith(url, <<"https:", "/", "/">>) \/ StartsWith(url, <<"http:", "/", "/">>)

\* a download that records the page version before the archive is fetched
DownloadRecordsFirst ==
    /\ pc = "download"
    /\ fetched' = TRUE
    /\ chanFile' = WriteChannelFile(chanFile, chan, page_version)
    /\ \/ Fatal
       \/ HasScheme(download_url) /\ pc' = "extract" /\ UNCHANGED <<exitCode, temp>>
    /\ UNCHANGED <<Args, failures, dest, sharedFile, History, Locals, available_version,
                   has_update, new_version, installing, written, warnings,
                   recordFailed, synced, Upstream, cmpVars>>

\* download_file: the request fails, or the response is stored in the
\* temporary directory
Download ==
    /\ pc = "download"
    /\ fetched' = TRUE
    /\ \/ Fatal
       \/ HasScheme(download_url) /\ pc' = "extract" /\ UNCHANGED <<exitCode, temp>>
    /\ UNCHANGED <<Args, failures, Persistent, History, Locals, available_version,
                   has_update, new_version, installing, written, warnings,
                   recordFailed, synced, Upstream, cmpVars>>

\* extract_zip, on whatever archive the server sent
Extract ==
    /\ pc = "extract"
    /\ \E a \in upstreamArchives :
          /\ archive' = a
          /\ IF ArchiveOf(a).valid
             THEN pc' = "locate" /\ UNCHANGED <<exitCode, temp>>
             ELSE Fatal
    /\ UNCHANGED <<Args, failures, Persistent, History, current_version,
                   available_version, download_url, page_version, has_update,
                   installed_version, new_version, ibjts_dir, fetched, installing,
                   written, warnings,
                   recordFailed, synced, Upstream, cmpVars>>

\* the search for IBJts/source/pythonclient
Locate ==
    /\ pc = "locate"
    /\ LET r == LocatePayload(ArchiveOf(archive))
       IN  IF r.found
           THEN /\ ibjts_dir' = r.payload
                /\ pc' = "copy"
                /\ UNCHANGED <<exitCode, temp>>
           ELSE /\ Fatal
                /\ UNCHANGED ibjts_dir
    /\ UNCHANGED <<Args, failures, Persistent, History, current_version,
                   available_version, download_url, page_version, has_update,
                   installed_version, new_version, archive, fetched, installing,
                   written, warnings,
                   recordFailed, synced, Upstream, cmpVars>>

\* the items whose copy is made to raise: the package directory and a plain
\* file (a directory in one payload)
Fragile == {"ibapi", "README.md"}

\* the items of the payload whose copy can raise
Present(payload) == {n \in Fragile : payload[n].kind # "absent"}

ExitStatusInverted(h) == IF h THEN 1 ELSE 0

\* the exit status of line 503
ExitStatus(h) == IF h THEN 0 ELSE 1

\* The install attempt once the payload is located: copy_files with the
\* copies of the items in F raising; then the version record is written
\* (lines 409-419 of check_version.py, 396-402 of setup_ibapi.py), which
\* succeeds or raises and is reported as a warning; then the with-block is
\* left and the caller takes the result (lines 473-474; setup_ibapi.py ends).
Install ==
    /\ pc = "copy"
    /\ installing' = TRUE
    /\ \E F \in SUBSET Present(PayloadOf(ibjts_dir)) :
       \E writeFails \in BOOLEAN :
          /\ failures + Cardinality(F) + (IF writeFails THEN 1 ELSE 0) <= MaxFailures
          /\ failures' = failures + Cardinality(F) + (IF writeFails THEN 1 ELSE 0)
          /\ \E outcomes \in [F -> FailKinds] :
                LET r == copy_files(PayloadOf(ibjts_dir), dest, outcomes)
                    v == RecordedVersion(r.version, page_version)
                IN  /\ writeFails => v # None
                    /\ dest' = r.dest
                    /\ installed_version' = r.version
                    /\ warnings' = Warned(PayloadOf(ibjts_dir), dest, outcomes)
                    /\ recordFailed' = writeFails
                    /\ IF v # None /\ ~writeFails
                       THEN /\ written' = TRUE
                            /\ IF entry = "check"
                               THEN /\ chanFile' = WriteChannelFile(chanFile, chan, v)
                                    /\ UNCHANGED sharedFile
                               ELSE /\ sharedFile' = WriteSharedFile(chan, v)
                                    /\ UNCHANGED chanFile
                       ELSE UNCHANGED <<chanFile, sharedFile, written>>
                    /\ IF entry = "check"
                       THEN /\ available_version' =
                                  IF v # None THEN v ELSE available_version
                            /\ pc' = "output"
                            /\ UNCHANGED <<exitCode, new_version>>
                       ELSE /\ new_version' = v
                            /\ pc' = "done"
                            /\ exitCode' = 0
                            /\ UNCHANGED available_version
    /\ temp' = TempDirExit(temp)
    /\ UNCHANGED <<Args, History, current_version, download_url, page_version,
                   has_update, archive, ibjts_dir, fetched, synced, Upstream, cmpVars>>

\* check_version.py main, lines 476-503
Output ==
    /\ pc = "output"
    /\ new_version' = available_version
    /\ exitCode' = ExitStatus(has_update)
    /\ pc' = "done"
    /\ UNCHANGED <<Args, failures, Persistent, History, Locals, temp,
                   available_version, has_update, fetched, installing, written, warnings,
                   recordFailed, synced, Upstream, cmpVars>>

Next ==
    \/ \E c \in Channels, u \in BOOLEAN : StartCheck(c, u)
    \/ \E c \in Channels : StartSetup(c)
    \/ Resolve
    \/ Compare
    \/ Download
    \/ Extract
    \/ Locate
    \/ Install
    \/ Output

Spec == Init /\ [][Next]_vars

\* The runs against an upstream that does not change: the server answers
\* every page request with the same page and every download with the same
\* archive (when it answers at all).
InitUnchanging ==
    /\ RunInit
    /\ dest \in InitDests
    /\ \E r \in InitRecords : chanFile = r.cf /\ sharedFile = r.sf
    /\ dest0 = dest
    /\ chanFile0 = chanFile
    /\ sharedFile0 = sharedFile
    /\ \E page \in Pages : upstreamPages = {page}
    /\ \E a \in ArchiveIds : upstreamArchives = {a}
    /\ CmpIdle

SpecUnchanging == InitUnchanging /\ [][Next]_vars

\* the positions of a run between its start and its end
Running == {"resolve", "compare", "download", "extract", "locate", "copy", "output"}

\* A step of the running script. Each of Resolve, Compare, Download,
\* Extract, Locate, Install and Output moves pc, and at each position in
\* Running the one for that position can be taken, so the steps of Next
\* that move pc from a position in Running are the steps of the script.
RunStep ==
    /\ pc \in Running
    /\ pc' \in Running \cup {"done", "failed"}
    /\ pc' # pc

\* The scripts are sequential programs: a run that has started takes its
\* next step (every request has a timeout, every loop is over a finite
\* list). Starting another run is up to the caller and is not forced.
RunFairness == WF_pc(RunStep)

\* Next, with the runs that are followed to their end counted by MaxFairRuns
FairNext ==
    \/ \E c \in Channels, u \in BOOLEAN : runs < MaxFairRuns /\ StartCheck(c, u)
    \/ \E c \in Channels : runs < MaxFairRuns /\ StartSetup(c)
    \/ Resolve
    \/ Compare
    \/ Download
    \/ Extract
    \/ Locate
    \/ Install
    \/ Output

FairSpec == Init /\ [][FairNext]_vars /\ RunFairness

(***************************************************************************)
(* The comparison on its own: every pair of versions is compared           *)
(***************************************************************************)
\* versions as integers: <<major, minor>>, <<major, minor, micro>>, <<>> for none
CmpVersions ==
    {<<a, b>> : a \in {9, 10}, b \in {9, 10, 37, 38}}
        \cup {<<a, b, c>> : a \in {9, 10}, b \in {9, 10, 37, 38}, c \in {0, 1, 5}}
        \cup {<<>>}

\* the version string of a version given as integers
CmpFormat(t) == JoinDot([i \in 1..Len(t) |-> IntToStr(t[i])])

CmpInit ==
    /\ RunInit
    /\ dest = DestOld
    /\ chanFile = NoChannelFiles
    /\ sharedFile = NoFile
    /\ dest0 = dest
    /\ chanFile0 = chanFile
    /\ sharedFile0 = sharedFile
    /\ upstreamPages = Pages
    /\ upstreamArchives = ArchiveIds
    /\ cmpPc = "pick"
    /\ cmpR = <<>>
    /\ cmpL = <<>>
    /\ cmpOut = FALSE

CmpPick ==
    /\ cmpPc = "pick"
    /\ \E r \in CmpVersions, l \in CmpVersions : cmpR' = r /\ cmpL' = l
    /\ cmpPc' = "apply"
    /\ UNCHANGED <<cmpOut, runVars>>

CmpApply ==
    /\ cmpPc = "apply"
    /\ cmpOut' = is_newer(CmpFormat(cmpR), CmpFormat(cmpL))
    /\ cmpPc' = "done"
    /\ UNCHANGED <<cmpR, cmpL, runVars>>

CmpNext == CmpPick \/ CmpApply

SpecCmp == CmpInit /\ [][CmpNext]_vars

(***************************************************************************)
(* Properties                                                              *)
(***************************************************************************)
\* the run has changed the destination tree or a version record
Changed == dest # dest0 \/ chanFile # chanFile0 \/ sharedFile # sharedFile0

\* the version record file the running script writes
RecordOfRun == IF entry = "check" THEN chanFile[chan] ELSE sharedFile

\* the version VersionStore.read gave for the run's channel when the run started
LocalAtStart == get_current_version(dest0, chanFile0, sharedFile0, chan)

\* C1 as stated, for both scripts: the archive is fetched, Installing is
\* entered and the destination or a record is changed only if the update was
\* requested (running setup_ibapi.py counts as a request) and the remote
\* version is newer than the local one.
C1_Original ==
    (fetched \/ installing \/ Changed) =>
        /\ entry = "check" => update /\ has_update
        /\ entry = "setup" => is_newer(page_version, LocalAtStart)

\* C1 (amended): in every run of the checker, the archive is fetched, the
\* temporary workspace is created, Installing is entered and the destination
\* or a version record is changed only if --update was given and has_update
\* is true; in every other checker run nothing is fetched or changed.
C1_CheckerGuard ==
    entry = "check" =>
        ((fetched \/ installing \/ temp \/ Changed) => update /\ has_update)

C1_Witness ==
    /\ entry = "check"
    /\ pc = "done"
    /\ update /\ has_update
    /\ installing
    /\ dest # dest0
    /\ chanFile # chanFile0

\* integer triples, the reference order of C2
Pad3(t) == IF Len(t) = 2 THEN t \o <<0>> ELSE t

LexGreater(r, l) ==
    \/ r[1] > l[1]
    \/ r[1] = l[1] /\ r[2] > l[2]
    \/ r[1] = l[1] /\ r[2] = l[2] /\ r[3] > l[3]

\* C2: for version strings of 2 or 3 integer components, the comparison the
\* code makes on the strings is true exactly when the remote integer triple
\* (micro padded with 0) is lexicographically greater than the local one.
C2_NumericOrder ==
    (cmpPc = "done" /\ cmpR # <<>> /\ cmpL # <<>>) =>
        (cmpOut <=> LexGreater(Pad3(cmpR), Pad3(cmpL)))

\* "10.9" against "10.10.5": string order and numeric order disagree
C2_Witness ==
    /\ cmpPc = "done"
    /\ cmpR = <<10, 9>>
    /\ cmpL = <<10, 10, 5>>
    /\ ~cmpOut

\* C3: a version compared against itself (none included) gives has_update
\* = false.
C3_ReflexiveFalse ==
    (cmpPc = "done" /\ cmpR = cmpL) => ~cmpOut

C3_Witness ==
    /\ cmpPc = "done"
    /\ cmpR = <<10, 37, 1>>
    /\ cmpL = cmpR
    /\ ~cmpOut

\* C4: with no local version the result is true for every remote version;
\* with no remote version the result is false for every local value.
C4_NoneCases ==
    cmpPc = "done" =>
        /\ (cmpL = <<>> /\ cmpR # <<>>) => cmpOut
        /\ cmpR = <<>> => ~cmpOut

C4_Witness ==
    /\ cmpPc = "done"
    /\ cmpL = <<>>
    /\ cmpR = <<10, 37>>
    /\ cmpOut

\* C5: a run of the checker exits with status zero exactly when it completes
\* with has_update true, and with a non-zero status when no update is needed
\* and on every fatal error.
C5_ExitStatus ==
    (entry = "check" /\ pc \in {"done", "failed"}) =>
        /\ exitCode \in {0, 1}
        /\ exitCode = 0 <=> (pc = "done" /\ has_update)

C5_Witness ==
    /\ entry = "check"
    /\ pc = "done"
    /\ has_update
    /\ installing
    /\ exitCode = 0

\* the version C6 expects: destination metadata, else payload metadata, else
\* the page version
MetadataVersion ==
    LET dest_meta == get_version_from_ibapi(dest["ibapi"])
        payload_meta == get_version_from_ibapi(PayloadOf(ibjts_dir)["ibapi"])
    IN  IF dest_meta # None THEN dest_meta
        ELSE IF payload_meta # None THEN payload_meta
        ELSE page_version

\* C6: after an install, the version reported, and the version in the record
\* that was written, is the version in the destination's metadata, else the
\* one in the payload's metadata, else the page version.
C6_MetadataWins ==
    (pc = "done" /\ installing) =>
        /\ new_version = MetadataVersion
        /\ written => (RecordOfRun.state = "ok" /\ RecordOfRun.version = MetadataVersion)

\* scenario B: page 10.37, payload metadata 10.37.1
C6_Witness ==
    /\ pc = "done"
    /\ installing
    /\ written
    /\ page_version = Ver2(10, 37)
    /\ RecordOfRun.version = Ver3(10, 37, 1)
    /\ new_version = Ver3(10, 37, 1)

\* C7: a run that ends in a fatal error (page discovery, download,
\* extraction, payload location) leaves every destination entry and every
\* version record as it was before the run.
C7_FatalLeavesUntouched ==
    pc = "failed" =>
        /\ dest = dest0
        /\ chanFile = chanFile0
        /\ sharedFile = sharedFile0

\* scenario D: the payload is at neither searched depth
C7_Witness ==
    /\ pc = "failed"
    /\ archive = "deep"
    /\ ~installing
    /\ dest = dest0

\* C8: once the run has ended, on any exit path, the temporary workspace no
\* longer exists.
C8_WorkspaceRemoved ==
    pc \in {"done", "failed"} => ~temp

\* a fatal exit inside the attempt, after the workspace was created
C8_Witness ==
    /\ pc = "failed"
    /\ fetched
    /\ archive = "empty"
    /\ ~temp

\* C9: a destination entry differs from what it was before the run only if
\* it is an InstallSet entry that is present in the payload being installed;
\* entries absent from the payload, and entries outside the InstallSet, are
\* kept unchanged.
C9_ReplaceOnlyIfPresent ==
    \A n \in DestNames :
        dest[n] # dest0[n] =>
            /\ installing
            /\ n \in InstallNames
            /\ PayloadOf(ibjts_dir)[n].kind # "absent"

\* a payload without tests/ is installed over a destination that has tests/
C9_Witness ==
    /\ pc = "done"
    /\ installing
    /\ PayloadOf(ibjts_dir)["tests"].kind = "absent"
    /\ dest0["tests"].kind = "dir"
    /\ dest["tests"] = dest0["tests"]
    /\ dest["setup.py"] # dest0["setup.py"]

\* C10 as stated: after a run for one channel, reading the other channel's
\* version returns the same value as before the run.
C10_Original ==
    pc \in {"done", "failed"} =>
        \A d \in Channels \ {chan} :
            get_current_version(dest, chanFile, sharedFile, d)
                = get_current_version(dest0, chanFile0, sharedFile0, d)

\* C10 (amended): a run for channel c leaves the other channel's own record
\* file as it was, and the checker's reading for c does not use it; so the
\* other channel reads the same version as before whenever its own record
\* file is readable.
C10_ChannelFilesIndependent ==
    \A d \in Channels \ {chan} :
        /\ chanFile[d] = chanFile0[d]
        /\ chanFile0[d].state = "ok" =>
              get_current_version(dest, chanFile, sharedFile, d)
                  = get_current_version(dest0, chanFile0, sharedFile0, d)
        /\ (entry = "check" /\ pc # "idle") =>
              current_version
                  = get_current_version(dest0, [chanFile0 EXCEPT ![d] = NoFile],
                                        sharedFile0, chan)

C10_Witness ==
    /\ pc = "done"
    /\ entry = "check"
    /\ chan = "latest"
    /\ written
    /\ chanFile["latest"] # chanFile0["latest"]
    /\ chanFile0["stable"].state = "ok"
    /\ chanFile["stable"] = chanFile0["stable"]

\* the version the read policy of C11 gives: each source in turn, a source
\* that is absent, unparsable or holds no version being passed over
FirstYielding(project_root, cf, sf, version_type) ==
    LET from_channel_file ==
            IF cf[version_type].state = "ok" THEN cf[version_type].version ELSE None
        from_shared_file ==
            IF sf.state = "ok" /\ sf.type = version_type THEN sf.version ELSE None
        from_metadata == get_version_from_ibapi(project_root["ibapi"])
    IN  IF from_channel_file # None THEN from_channel_file
        ELSE IF from_shared_file # None THEN from_shared_file
        ELSE from_metadata

\* C11: the version the checker reads for its channel is the version of the
\* first source, in the order channel file, shared file of the same type,
\* installed metadata, that yields a version; none is read only when no
\* source yields one.
C11_FirstYieldingSource ==
    (entry = "check" /\ pc # "idle") =>
        current_version = FirstYielding(dest0, chanFile0, sharedFile0, chan)

\* C12: the download URL returned by page resolution begins with https://,
\* whatever the form of the href of the matched anchor.
C12_AlwaysHttps ==
    download_url # None => StartsWith(download_url, <<"https:", "/", "/">>)

\* the top-level directories of an extracted tree that hold the fixed path
NestedCandidates(a) == {i \in 1..Len(a.top) : a.top[i].isDir /\ a.top[i].has}

\* C13: once an archive has been extracted and searched, the payload is the
\* one at the fixed path under the extraction root when it exists there,
\* otherwise the one in the first top-level directory that holds the fixed
\* path one level deeper, and the run goes on to the Installer; when neither
\* exists (empty archive, payload two levels deep) the run has failed and
\* the Installer was never entered.
C13_PayloadLocation ==
    (archive # "none" /\ ArchiveOf(archive).valid /\ pc # "locate") =>
        LET a == ArchiveOf(archive)
        IN  IF a.direct
            THEN ibjts_dir = a.directPayload /\ pc \in {"copy", "output", "done"}
            ELSE IF NestedCandidates(a) # {}
            THEN /\ \E i \in NestedCandidates(a) :
                       /\ \A j \in NestedCandidates(a) : i <= j
                       /\ ibjts_dir = a.top[i].payload
                 /\ pc \in {"copy", "output", "done"}
            ELSE pc = "failed" /\ ibjts_dir = "none" /\ ~installing /\ dest = dest0

\* two top-level directories hold the path: the first one is installed
C13_Witness ==
    /\ pc = "done"
    /\ installing
    /\ archive = "nested-notests"
    /\ Cardinality(NestedCandidates(ArchiveOf(archive))) = 2
    /\ ibjts_dir = "notests"
    /\ dest["setup.py"] = PayloadNoTests["setup.py"]

\* C14: after a run that entered Installing and wrote a version record, the
\* recorded version is the version of the package the destination holds,
\* also when a copy failed part-way. (A destination package whose metadata
\* cannot be read has no version to compare with and is left out.)
C14_RecordMatchesDestination ==
    (pc = "done" /\ installing /\ written) =>
        \/ RecordOfRun.version = get_version_from_ibapi(dest["ibapi"])
        \/ dest["ibapi"].kind = "dir" /\ dest["ibapi"].meta = <<>>

\* C15: when the copy of an InstallSet entry raises, the install goes on:
\* every entry present in the payload whose own copy did not raise is
\* installed, the version record is written as it is without the failure
\* (whenever a version is known and the write itself does not raise), and
\* the run is on its way to Done, where it ends with the status of a
\* completed run, never in Failed.
C15_CopyFailureDoesNotAbort ==
    (installing /\ warnings # {}) =>
        /\ \A n \in InstallNames :
              (PayloadOf(ibjts_dir)[n].kind # "absent" /\ n \notin warnings) =>
                  dest[n] = PayloadOf(ibjts_dir)[n]
        /\ (RecordedVersion(installed_version, page_version) # None /\ ~recordFailed) =>
              /\ written
              /\ RecordOfRun =
                    RecordFile(chan, RecordedVersion(installed_version, page_version))
        /\ pc \in {"output", "done"}
        /\ pc = "done" => exitCode = 0

\* the copy of the first entry, the package, raises part-way; the six
\* entries after it are installed and the record is written
C15_Witness ==
    /\ pc = "done"
    /\ installing
    /\ "ibapi" \in warnings
    /\ dest["ibapi"].data = "partial"
    /\ \A n \in InstallNames \ {"ibapi", "pylintrc"} : dest[n] = PayloadFull[n]
    /\ written

\* the steps of a run of the checker between the states of the Orchestrator:
\* Idle or a terminal state of the run before ("idle", "done", "failed"),
\* Resolving ("resolve"), Comparing ("compare"), Installing ("download",
\* "extract", "locate", "copy"), UpToDate or the output after an install
\* ("output"), Done ("done"), Failed ("failed")
OrderedSteps ==
    { <<"idle", "resolve">>, <<"done", "resolve">>, <<"failed", "resolve">>,
      <<"resolve", "compare">>, <<"resolve", "failed">>,
      <<"compare", "output">>, <<"compare", "download">>,
      <<"download", "extract">>, <<"download", "failed">>,
      <<"extract", "locate">>, <<"extract", "failed">>,
      <<"locate", "copy">>, <<"locate", "failed">>,
      <<"copy", "output">>, <<"output", "done">> }

\* C16: whatever the collaborators answer, a run of the checker that has
\* started reaches Done or Failed; it moves between the states only along
\* Idle, Resolving, Comparing, then UpToDate or Installing, and leaves a
\* terminal state only when the next run starts, so it ends in exactly one
\* of them; and an archive download has started only after the page was
\* resolved and the versions were compared.
C16_RunTerminatesInOrder ==
    /\ (entry = "check" /\ pc \notin {"idle", "done", "failed"})
          ~> (entry = "check" /\ pc \in {"done", "failed"})
    /\ [][entry' = "check" => <<pc, pc'>> \in OrderedSteps]_vars
    /\ []((entry = "check" /\ pc \in {"done", "failed"}) <=>
             (entry = "check" /\ exitCode \in {0, 1}))
    /\ []((entry = "check" /\ fetched) => (download_url # None /\ has_update))

\* a run of the checker that went through every state up to the install,
\* with an entry that could not be copied and a record that could not be
\* written, has ended in Done
C16_Witness ==
    /\ entry = "check"
    /\ pc = "done"
    /\ fetched /\ installing
    /\ warnings # {}
    /\ recordFailed
    /\ exitCode = 0

\* C17: against a landing page and an archive that do not change, the run
\* that immediately follows a checker run with --update for the same
\* channel, which completed an install (the package was copied without a
\* failure) and wrote the record, computes
\* has_update = false, downloads and installs nothing, and leaves the
\* destination and the records as they were.
C17_SecondRunIdle ==
    (entry = "check" /\ synced /\ pc \notin {"resolve", "compare"}) =>
        /\ ~has_update
        /\ ~fetched
        /\ ~installing
        /\ ~Changed

====
